---- MODULE Spec2Model ----
(***************************************************************************)
(* vpcctl (src/vpcctl.py): one VPCManager per command-line invocation.     *)
(* The manager loads the state file, runs one handler (create_vpc,         *)
(* add_subnet, peer_vpcs, apply_firewall, delete_vpc) which issues shell   *)
(* commands through _run_cmd one after the other, and rewrites the state   *)
(* file at the end of a successful mutation.  The kernel objects the       *)
(* commands act on (bridges, namespaces, veth pairs, addresses, iptables   *)
(* chains) are part of the state, so that what a command sequence leaves   *)
(* behind can be stated.                                                   *)
(***************************************************************************)
EXTENDS Integers, Sequences, FiniteSets, TLC

VARIABLES disk, kernel, mgr, nops, nfail

vars == <<disk, kernel, mgr, nops, nfail>>

(***************************************************************************)
(* Bounds of the exploration.                                              *)
(***************************************************************************)
\* command-line invocations in one run
MaxOps == 4
\* invocations in one run with faults
MaxFaultOps == 1
\* commands that fail although the kernel could have carried them out
MaxFail == 8

(***************************************************************************)
(* Inputs: the argument values the invocations draw from.                  *)
(***************************************************************************)
VpcNames == {"app", "app-db"}

SubnetNames == {"web", "db-web"}

SubnetTypes == {"public", "private"}

\* an address as the integer ipaddress keeps
IP(a, b, c, d) == ((a * 256 + b) * 256 + c) * 256 + d

\* the text "addr/len" of a CIDR argument
CIDR(addr, len) == [addr |-> addr, len |-> len]

\* 10.0.0.0/16 and 10.0.0.1/16 (host bits set)
VpcCidrs == {CIDR(IP(10, 0, 0, 0), 16), CIDR(IP(10, 0, 0, 1), 16)}

\* 10.0.1.0/24, 10.0.1.0/31, 10.0.1.0/32 (one address) and 10.0.1.5/24 (host bits set)
SubnetCidrs == {CIDR(IP(10, 0, 1, 0), 24), CIDR(IP(10, 0, 1, 0), 31),
                CIDR(IP(10, 0, 1, 0), 32), CIDR(IP(10, 0, 1, 5), 24)}

Rule(port, protocol, action) == [port |-> port, protocol |-> protocol, action |-> action]

\* contents of the policy file: the "ingress" list
Policies == { <<>>,
              <<Rule(80, "tcp", "allow")>>,
              <<Rule(22, "tcp", "deny"), Rule(80, "tcp", "allow")>> }

(***************************************************************************)
(* ipaddress.ip_network (strict) and IPv4Network.hosts().                  *)
(***************************************************************************)
num_addresses(c) == 2 ^ (32 - c.len)

\* ip_network raises ValueError on a bad prefix length or on host bits set
ip_network_ok(c) == c.len \in 0..32 /\ c.addr % num_addresses(c) = 0

broadcast_address(c) == c.addr + num_addresses(c) - 1

\* len(list(network.hosts()))
num_hosts(c) ==
    IF c.len = 32 THEN 1
    ELSE IF c.len = 31 THEN 2
    ELSE num_addresses(c) - 2

\* list(network.hosts()), 1-based: a /32 yields its address, a /31 both
\* addresses, any other block the addresses between network and broadcast
hosts(c) ==
    IF c.len = 32 THEN [i \in 1..1 |-> c.addr]
    ELSE IF c.len = 31 THEN [i \in 1..2 |-> c.addr + i - 1]
    ELSE [i \in 1..(num_addresses(c) - 2) |-> c.addr + i]

(***************************************************************************)
(* Derived identifiers.                                                    *)
(***************************************************************************)
\* hashlib.md5(s.encode()).hexdigest()[:6] on the strings the inputs build
md5_hex6(s) ==
    CASE s = "appweb" -> "4156eb"
      [] s = "appdb-web" -> "26ee0b"
      [] s = "app-dbweb" -> "d7cc58"
      [] s = "app-dbdb-web" -> "c0fb8c"
      [] s = "appapp" -> "fe63fe"
      [] s = "appapp-db" -> "cecde0"
      [] s = "app-dbapp" -> "9cac11"
      [] s = "app-dbapp-db" -> "a6d79c"

bridge_name(vpc_name) == "br-" \o vpc_name

ns_name(vpc_name, subnet_name) == vpc_name \o "-" \o subnet_name

name_hash(vpc_name, subnet_name) == md5_hex6(vpc_name \o subnet_name)

veth_host(vpc_name, subnet_name) == "vh" \o name_hash(vpc_name, subnet_name)

veth_ns(vpc_name, subnet_name) == "vn" \o name_hash(vpc_name, subnet_name)

peer_hash(vpc1_name, vpc2_name) == md5_hex6(vpc1_name \o vpc2_name)

peer_veth1(vpc1_name, vpc2_name) == "pr1" \o peer_hash(vpc1_name, vpc2_name)

peer_veth2(vpc1_name, vpc2_name) == "pr2" \o peer_hash(vpc1_name, vpc2_name)

(***************************************************************************)
(* Shell commands.  A command is its template v and the values put in it:  *)
(* ns is the namespace it runs in ("" for the host), a, b, c are names,    *)
(* n an address or a port, len a prefix length.                            *)
(***************************************************************************)
Command(v, ns, a, b, c, n, len) ==
    [v |-> v, ns |-> ns, a |-> a, b |-> b, c |-> c, n |-> n, len |-> len]

NoCommand == Command("", "", "", "", "", 0, 0)

link_add_bridge(br) == Command("ip link add A type bridge", "", br, "", "", 0, 0)

link_set_up(ns, dev) == Command("ip link set A up", ns, dev, "", "", 0, 0)

bridge_nf_call == Command("echo 1 > /proc/sys/net/bridge/bridge-nf-call-iptables", "", "", "", "", 0, 0)

forward_append(i, o, j) == Command("iptables -A FORWARD -i A -o B -j C", "", i, o, j, 0, 0)

forward_append_not(i, o, j) == Command("iptables -A FORWARD -i A ! -o B -j C", "", i, o, j, 0, 0)

\* variant: the accept rule is appended like the isolation rules
forward_insert_as_append(i, o, j) == Command("iptables -A FORWARD -i A -o B -j C", "", i, o, j, 0, 0)

forward_insert(i, o, j) == Command("iptables -I FORWARD -i A -o B -j C", "", i, o, j, 0, 0)

forward_delete(i, o, j) == Command("iptables -D FORWARD -i A -o B -j C", "", i, o, j, 0, 0)

forward_delete_not(i, o, j) == Command("iptables -D FORWARD -i A ! -o B -j C", "", i, o, j, 0, 0)

addr_add(ns, dev, ip, len) == Command("ip addr add N/LEN dev A", ns, dev, "", "", ip, len)

sysctl_ip_forward == Command("sysctl -w net.ipv4.ip_forward=1", "", "", "", "", 0, 0)

netns_add(ns) == Command("ip netns add A", "", ns, "", "", 0, 0)

netns_del(ns) == Command("ip netns del A", "", ns, "", "", 0, 0)

link_add_veth(dev, peer) == Command("ip link add A type veth peer name B", "", dev, peer, "", 0, 0)

link_set_netns(dev, ns) == Command("ip link set A netns B", "", dev, ns, "", 0, 0)

link_set_master(dev, br) == Command("ip link set A master B", "", dev, br, "", 0, 0)

link_del(dev) == Command("ip link del A", "", dev, "", "", 0, 0)

route_add_default(ns, gw) == Command("ip route add default via N", ns, "", "", "", gw, 0)

route_replace(cidr, dev) == Command("ip route replace N/LEN dev A", "", dev, "", "", cidr.addr, cidr.len)

nat_append(cidr, iface) ==
    Command("iptables -t nat -A POSTROUTING -s N/LEN -o A -j MASQUERADE", "", iface, "", "", cidr.addr, cidr.len)

nat_delete(cidr, iface) ==
    Command("iptables -t nat -D POSTROUTING -s N/LEN -o A -j MASQUERADE", "", iface, "", "", cidr.addr, cidr.len)

input_append(ns, proto, port, j) ==
    Command("iptables -A INPUT -p A --dport N -j C", ns, proto, "", j, port, 0)

(***************************************************************************)
(* The kernel objects the commands act on, and what each command does to   *)
(* them when it succeeds.  links holds one record per veth end.            *)
(***************************************************************************)
Link(name, peer, ns, master) == [name |-> name, peer |-> peer, ns |-> ns, master |-> master]

Addr(ns, dev, ip, len) == [ns |-> ns, dev |-> dev, ip |-> ip, len |-> len]

EmptyKernel ==
    [bridges |-> {}, netns |-> {}, links |-> {}, addrs |-> {},
     forward |-> <<>>, postrouting |-> <<>>, input |-> [n \in {} |-> <<>>]]

\* the rule of an iptables FORWARD command
ForwardRule(d) ==
    [i |-> d.a, o |-> d.b, j |-> d.c,
     neg |-> d.v \in {"iptables -A FORWARD -i A ! -o B -j C", "iptables -D FORWARD -i A ! -o B -j C"}]

\* the rule of an iptables nat POSTROUTING command
NatRule(d) == [addr |-> d.n, len |-> d.len, o |-> d.a]

\* the rule of an iptables INPUT command
InputRule(d) == [p |-> d.a, dport |-> d.n, j |-> d.c]

Contains(chain, r) == \E i \in 1..Len(chain) : chain[i] = r

\* iptables -D: the first rule equal to r leaves the chain
DeleteRule(chain, r) ==
    LET k == CHOOSE i \in 1..Len(chain) : chain[i] = r /\ \A h \in 1..(i - 1) : chain[h] # r
    IN SubSeq(chain, 1, k - 1) \o SubSeq(chain, k + 1, Len(chain))

\* variant: bridges are not looked at, so that adding a bridge that is
\* already there goes through
DevExists_links_only(k, ns, dev) ==
    IF ns = ""
    THEN \E l \in k.links : l.name = dev /\ l.ns = ""
    ELSE ns \in k.netns /\ (dev = "lo" \/ \E l \in k.links : l.name = dev /\ l.ns = ns)

DevExists(k, ns, dev) ==
    IF ns = ""
    THEN dev \in k.bridges \/ \E l \in k.links : l.name = dev /\ l.ns = ""
    ELSE ns \in k.netns /\ (dev = "lo" \/ \E l \in k.links : l.name = dev /\ l.ns = ns)

\* the links that go away with the links in gone: these and their veth peers
WithPeers(k, gone) == gone \cup {l \in k.links : \E g \in gone : g.peer = l.name /\ l.peer = g.name}

RemoveLinks(k, gone) ==
    LET dead == WithPeers(k, gone)
    IN [k EXCEPT !.links = k.links \ dead,
                 !.addrs = {a \in k.addrs : ~\E l \in dead : l.name = a.dev /\ l.ns = a.ns}]

\* whether the kernel carries the command out (exit status 0)
CanSucceed(k, d) ==
    CASE d.v = "ip link add A type bridge" -> ~DevExists(k, "", d.a)
      [] d.v = "ip link set A up" -> DevExists(k, d.ns, d.a)
      [] d.v = "ip addr add N/LEN dev A" ->
            DevExists(k, d.ns, d.a) /\ Addr(d.ns, d.a, d.n, d.len) \notin k.addrs
      [] d.v = "ip netns add A" -> d.a \notin k.netns
      [] d.v = "ip netns del A" -> d.a \in k.netns
      [] d.v = "ip link add A type veth peer name B" ->
            d.a # d.b /\ ~DevExists(k, "", d.a) /\ ~DevExists(k, "", d.b)
      [] d.v = "ip link set A netns B" ->
            (\E l \in k.links : l.name = d.a /\ l.ns = "") /\ d.b \in k.netns
                /\ ~DevExists(k, d.b, d.a)
      [] d.v = "ip link set A master B" ->
            (\E l \in k.links : l.name = d.a /\ l.ns = "") /\ d.b \in k.bridges
      [] d.v = "ip link del A" -> DevExists(k, "", d.a)
      [] d.v = "ip route add default via N" -> d.ns \in k.netns
      [] d.v = "ip route replace N/LEN dev A" -> DevExists(k, "", d.a)
      [] d.v \in {"iptables -D FORWARD -i A -o B -j C", "iptables -D FORWARD -i A ! -o B -j C"} ->
            Contains(k.forward, ForwardRule(d))
      [] d.v = "iptables -t nat -D POSTROUTING -s N/LEN -o A -j MASQUERADE" ->
            Contains(k.postrouting, NatRule(d))
      [] d.v = "iptables -A INPUT -p A --dport N -j C" -> d.ns \in k.netns
      [] OTHER -> TRUE

\* the kernel after the command succeeded
Apply(k, d) ==
    CASE d.v = "ip link add A type bridge" -> [k EXCEPT !.bridges = @ \cup {d.a}]
      [] d.v = "ip addr add N/LEN dev A" ->
            [k EXCEPT !.addrs = @ \cup {Addr(d.ns, d.a, d.n, d.len)}]
      [] d.v = "ip netns add A" ->
            [k EXCEPT !.netns = @ \cup {d.a},
                      !.input = [n \in k.netns \cup {d.a} |-> IF n = d.a THEN <<>> ELSE k.input[n]]]
      [] d.v = "ip netns del A" ->
            LET r == RemoveLinks(k, {l \in k.links : l.ns = d.a})
            IN [r EXCEPT !.netns = @ \ {d.a},
                         !.addrs = {a \in @ : a.ns # d.a},
                         !.input = [n \in k.netns \ {d.a} |-> k.input[n]]]
      [] d.v = "ip link add A type veth peer name B" ->
            [k EXCEPT !.links = @ \cup {Link(d.a, d.b, "", ""), Link(d.b, d.a, "", "")}]
      [] d.v = "ip link set A netns B" ->
            [k EXCEPT !.links = {IF l.name = d.a /\ l.ns = "" THEN Link(l.name, l.peer, d.b, "") ELSE l
                                 : l \in @},
                      !.addrs = {a \in @ : ~(a.ns = "" /\ a.dev = d.a)}]
      [] d.v = "ip link set A master B" ->
            [k EXCEPT !.links = {IF l.name = d.a /\ l.ns = "" THEN Link(l.name, l.peer, "", d.b) ELSE l
                                 : l \in @}]
      [] d.v = "ip link del A" ->
            IF d.a \in k.bridges
            THEN [k EXCEPT !.bridges = @ \ {d.a},
                           !.links = {IF l.ns = "" /\ l.master = d.a THEN Link(l.name, l.peer, "", "") ELSE l
                                      : l \in @},
                           !.addrs = {a \in @ : ~(a.ns = "" /\ a.dev = d.a)}]
            ELSE RemoveLinks(k, {l \in k.links : l.name = d.a /\ l.ns = ""})
      [] d.v \in {"iptables -A FORWARD -i A -o B -j C", "iptables -A FORWARD -i A ! -o B -j C"} ->
            [k EXCEPT !.forward = Append(@, ForwardRule(d))]
      [] d.v = "iptables -I FORWARD -i A -o B -j C" ->
            [k EXCEPT !.forward = <<ForwardRule(d)>> \o @]
      [] d.v \in {"iptables -D FORWARD -i A -o B -j C", "iptables -D FORWARD -i A ! -o B -j C"} ->
            [k EXCEPT !.forward = DeleteRule(@, ForwardRule(d))]
      [] d.v = "iptables -t nat -A POSTROUTING -s N/LEN -o A -j MASQUERADE" ->
            [k EXCEPT !.postrouting = Append(@, NatRule(d))]
      [] d.v = "iptables -t nat -D POSTROUTING -s N/LEN -o A -j MASQUERADE" ->
            [k EXCEPT !.postrouting = DeleteRule(@, NatRule(d))]
      [] d.v = "iptables -A INPUT -p A --dport N -j C" ->
            [k EXCEPT !.input[d.ns] = Append(@, InputRule(d))]
      [] OTHER -> k

(***************************************************************************)
(* The state file: {"vpcs": {name: vpc}}.  A vpc's "subnets" dict is kept  *)
(* as the list of its items, in insertion order, each carrying its key as  *)
(* name.                                                                   *)
(***************************************************************************)
\* _load_state when the file does not exist
EmptyState == [vpcs |-> [n \in {} |-> 0]]

has_subnet(vpc, subnet_name) == \E i \in 1..Len(vpc.subnets) : vpc.subnets[i].name = subnet_name

get_subnet(vpc, subnet_name) ==
    vpc.subnets[CHOOSE i \in 1..Len(vpc.subnets) : vpc.subnets[i].name = subnet_name]

\* vpc["subnets"][subnet_name] = ...: a key already there keeps its place
set_subnet(subnets, rec) ==
    IF \E i \in 1..Len(subnets) : subnets[i].name = rec.name
    THEN [i \in 1..Len(subnets) |-> IF subnets[i].name = rec.name THEN rec ELSE subnets[i]]
    ELSE Append(subnets, rec)

(***************************************************************************)
(* The command line of one invocation.                                     *)
(***************************************************************************)
Args(name, vpc, vpc2, subnet, cidr, type, iface, policy) ==
    [name |-> name, vpc |-> vpc, vpc2 |-> vpc2, subnet |-> subnet, cidr |-> cidr,
     type |-> type, iface |-> iface, policy |-> policy]

NoArgs == Args("idle", "", "", "", CIDR(0, 0), "", "", <<>>)

(***************************************************************************)
(* The handlers.  A handler is the list of its steps after the early       *)
(* returns: "run" is a _run_cmd call (check as passed), "hosts" the        *)
(* ip_network/hosts() lookup, which may raise, "save" the update of        *)
(* self.state followed by _save_state.                                     *)
(***************************************************************************)
Run(d) == [t |-> "run", d |-> d, check |-> TRUE]

Try(d) == [t |-> "run", d |-> d, check |-> FALSE]

Hosts == [t |-> "hosts", d |-> NoCommand, check |-> TRUE]

Save == [t |-> "save", d |-> NoCommand, check |-> TRUE]

bridge_ip(cidr_block) == hosts(cidr_block)[1]

subnet_ip(subnet_cidr) == hosts(subnet_cidr)[1]

\* variant: the gateway is taken at index 0 like the subnet address
subnet_gateway_first(subnet_cidr) == hosts(subnet_cidr)[1]

subnet_gateway(subnet_cidr) == hosts(subnet_cidr)[2]

\* whether lines 74-75 (create_vpc) or 123-125 (add_subnet) raise nothing
hosts_ok(c) ==
    /\ ip_network_ok(c.cidr)
    /\ num_hosts(c.cidr) >= (IF c.name = "create-vpc" THEN 1 ELSE 2)

\* variant: the lookup is made with the bridge name
create_vpc_exists_by_bridge(state, vpc_name) == bridge_name(vpc_name) \in DOMAIN state.vpcs

create_vpc_exists(state, vpc_name) == vpc_name \in DOMAIN state.vpcs

\* variant: only an empty store counts as "not found"
vpc_not_found_when_empty(state, vpc_name) == DOMAIN state.vpcs = {}

vpc_not_found(state, vpc_name) == vpc_name \notin DOMAIN state.vpcs

peer_not_found(state, vpc1_name, vpc2_name) ==
    vpc1_name \notin DOMAIN state.vpcs \/ vpc2_name \notin DOMAIN state.vpcs

subnet_not_found(state, vpc_name, subnet_name) == ~has_subnet(state.vpcs[vpc_name], subnet_name)

\* how the handler is entered: the early return it takes ("AlreadyExists",
\* "NotFound"), "KeyError" when a lookup in self.state that follows the
\* checks raises, "" when its commands start
early_return(state, c) ==
    CASE c.name = "create-vpc" ->
            IF create_vpc_exists(state, c.vpc) THEN "AlreadyExists" ELSE ""
      [] c.name = "add-subnet" ->
            IF vpc_not_found(state, c.vpc) THEN "NotFound"
            ELSE IF c.vpc \notin DOMAIN state.vpcs THEN "KeyError" ELSE ""
      [] c.name = "peer" ->
            IF peer_not_found(state, c.vpc, c.vpc2) THEN "NotFound"
            ELSE IF {c.vpc, c.vpc2} \subseteq DOMAIN state.vpcs THEN "" ELSE "KeyError"
      [] c.name = "apply-firewall" ->
            IF vpc_not_found(state, c.vpc) THEN "NotFound"
            ELSE IF c.vpc \notin DOMAIN state.vpcs THEN "KeyError"
            ELSE IF subnet_not_found(state, c.vpc, c.subnet) THEN "NotFound"
            ELSE IF ~has_subnet(state.vpcs[c.vpc], c.subnet) THEN "KeyError" ELSE ""
      [] c.name = "delete-vpc" ->
            IF vpc_not_found(state, c.vpc) THEN "NotFound"
            ELSE IF c.vpc \notin DOMAIN state.vpcs THEN "KeyError" ELSE ""

create_vpc(state, c) ==
    LET bridge == bridge_name(c.vpc)
    IN << Run(link_add_bridge(bridge)),
          Run(link_set_up("", bridge)),
          Try(bridge_nf_call),
          Try(forward_append(bridge, bridge, "ACCEPT")),
          Try(forward_append_not(bridge, bridge, "DROP")),
          Hosts >>
       \o (IF hosts_ok(c)
           THEN << Run(addr_add("", bridge, bridge_ip(c.cidr), c.cidr.len)),
                   Run(sysctl_ip_forward),
                   Save >>
           ELSE << >>)

setup_nat(state, vpc_name, subnet_cidr) ==
    LET vpc == state.vpcs[vpc_name]
        iface == vpc.internet_interface
    IN << Run(nat_append(subnet_cidr, iface)),
          Run(forward_append(vpc.bridge, iface, "ACCEPT")),
          Run(forward_append(iface, vpc.bridge, "ACCEPT")) >>

\* variant: the default route is installed before the bridge has the gateway address
add_subnet_route_first(state, c) ==
    LET vpc == state.vpcs[c.vpc]
        ns == ns_name(c.vpc, c.subnet)
        vh == veth_host(c.vpc, c.subnet)
        vn == veth_ns(c.vpc, c.subnet)
    IN << Run(netns_add(ns)),
          Run(link_add_veth(vh, vn)),
          Run(link_set_netns(vn, ns)),
          Run(link_set_master(vh, vpc.bridge)),
          Run(link_set_up("", vh)),
          Hosts >>
       \o (IF hosts_ok(c)
           THEN << Run(link_set_up(ns, "lo")),
                   Run(addr_add(ns, vn, subnet_ip(c.cidr), c.cidr.len)),
                   Run(link_set_up(ns, vn)),
                   Run(route_add_default(ns, subnet_gateway(c.cidr))),
                   Run(addr_add("", vpc.bridge, subnet_gateway(c.cidr), c.cidr.len)) >>
                \o (IF c.type = "public" THEN setup_nat(state, c.vpc, c.cidr) ELSE << >>)
                \o << Save >>
           ELSE << >>)

add_subnet(state, c) ==
    LET vpc == state.vpcs[c.vpc]
        ns == ns_name(c.vpc, c.subnet)
        vh == veth_host(c.vpc, c.subnet)
        vn == veth_ns(c.vpc, c.subnet)
    IN << Run(netns_add(ns)),
          Run(link_add_veth(vh, vn)),
          Run(link_set_netns(vn, ns)),
          Run(link_set_master(vh, vpc.bridge)),
          Run(link_set_up("", vh)),
          Hosts >>
       \o (IF hosts_ok(c)
           THEN << Run(link_set_up(ns, "lo")),
                   Run(addr_add(ns, vn, subnet_ip(c.cidr), c.cidr.len)),
                   Run(link_set_up(ns, vn)),
                   Run(addr_add("", vpc.bridge, subnet_gateway(c.cidr), c.cidr.len)),
                   Run(route_add_default(ns, subnet_gateway(c.cidr))) >>
                \o (IF c.type = "public" THEN setup_nat(state, c.vpc, c.cidr) ELSE << >>)
                \o << Save >>
           ELSE << >>)

\* variant: the peer interfaces left by an earlier run are not removed first
peer_vpcs_no_cleanup(state, c) ==
    LET vpc1 == state.vpcs[c.vpc]
        vpc2 == state.vpcs[c.vpc2]
        veth1 == peer_veth1(c.vpc, c.vpc2)
        veth2 == peer_veth2(c.vpc, c.vpc2)
    IN << Run(link_add_veth(veth1, veth2)),
          Run(link_set_master(veth1, vpc1.bridge)),
          Run(link_set_up("", veth1)),
          Run(link_set_master(veth2, vpc2.bridge)),
          Run(link_set_up("", veth2)),
          Run(route_replace(vpc2.cidr, vpc1.bridge)),
          Run(route_replace(vpc1.cidr, vpc2.bridge)),
          Try(forward_insert(vpc1.bridge, vpc2.bridge, "ACCEPT")),
          Try(forward_insert(vpc2.bridge, vpc1.bridge, "ACCEPT")) >>

peer_vpcs(state, c) ==
    LET vpc1 == state.vpcs[c.vpc]
        vpc2 == state.vpcs[c.vpc2]
        veth1 == peer_veth1(c.vpc, c.vpc2)
        veth2 == peer_veth2(c.vpc, c.vpc2)
    IN << Try(link_del(veth1)),
          Try(link_del(veth2)),
          Run(link_add_veth(veth1, veth2)),
          Run(link_set_master(veth1, vpc1.bridge)),
          Run(link_set_up("", veth1)),
          Run(link_set_master(veth2, vpc2.bridge)),
          Run(link_set_up("", veth2)),
          Run(route_replace(vpc2.cidr, vpc1.bridge)),
          Run(route_replace(vpc1.cidr, vpc2.bridge)),
          Try(forward_insert(vpc1.bridge, vpc2.bridge, "ACCEPT")),
          Try(forward_insert(vpc2.bridge, vpc1.bridge, "ACCEPT")) >>

\* str.upper() on the actions of the policies
upper(s) ==
    CASE s = "allow" -> "ALLOW"
      [] s = "deny" -> "DENY"
      [] OTHER -> s

\* variant: the action is compared without upper()
firewall_target_as_written(action) == IF action = "ALLOW" THEN "ACCEPT" ELSE "DROP"

firewall_target(action) == IF upper(action) = "ALLOW" THEN "ACCEPT" ELSE "DROP"

apply_firewall(state, c) ==
    LET subnet == get_subnet(state.vpcs[c.vpc], c.subnet)
    IN [i \in 1..Len(c.policy) |->
            Run(input_append(subnet.namespace, c.policy[i].protocol, c.policy[i].port,
                             firewall_target(c.policy[i].action)))]

\* the loop of lines 272-280
delete_subnets(vpc) ==
    [i \in 1..(2 * Len(vpc.subnets)) |->
        IF i % 2 = 1
        THEN Try(netns_del(vpc.subnets[(i + 1) \div 2].namespace))
        ELSE Try(link_del(vpc.subnets[i \div 2].veth_host))]

\* the loop of lines 283-288
delete_nat(vpc) ==
    LET public == SelectSeq(vpc.subnets, LAMBDA s : s.type = "public")
    IN [i \in 1..Len(public) |-> Try(nat_delete(public[i].cidr, vpc.internet_interface))]

\* variant: the bridge is deleted with check left at its default
delete_vpc_checked_bridge(state, c) ==
    LET vpc == state.vpcs[c.vpc]
    IN delete_subnets(vpc)
       \o delete_nat(vpc)
       \o << Try(forward_delete(vpc.bridge, vpc.bridge, "ACCEPT")),
             Try(forward_delete_not(vpc.bridge, vpc.bridge, "DROP")),
             Run(link_del(vpc.bridge)),
             Save >>

delete_vpc(state, c) ==
    LET vpc == state.vpcs[c.vpc]
    IN delete_subnets(vpc)
       \o delete_nat(vpc)
       \o << Try(forward_delete(vpc.bridge, vpc.bridge, "ACCEPT")),
             Try(forward_delete_not(vpc.bridge, vpc.bridge, "DROP")),
             Try(link_del(vpc.bridge)),
             Save >>

\* the steps of the invocation, none after an early return
Script(state, c) ==
    IF early_return(state, c) # "" THEN << >>
    ELSE CASE c.name = "create-vpc" -> create_vpc(state, c)
           [] c.name = "add-subnet" -> add_subnet(state, c)
           [] c.name = "peer" -> peer_vpcs(state, c)
           [] c.name = "apply-firewall" -> apply_firewall(state, c)
           [] c.name = "delete-vpc" -> delete_vpc(state, c)

\* variant: create-vpc starts the "vpcs" dict afresh
updated_state_fresh_dict(state, c) ==
    CASE c.name = "create-vpc" ->
            [vpcs |-> [n \in {c.vpc} |->
                          [cidr |-> c.cidr, bridge |-> bridge_name(c.vpc),
                           bridge_ip |-> bridge_ip(c.cidr),
                           internet_interface |-> c.iface, subnets |-> << >>]]]
      [] c.name = "add-subnet" ->
            [state EXCEPT !.vpcs[c.vpc].subnets =
                set_subnet(@, [name |-> c.subnet, cidr |-> c.cidr, type |-> c.type,
                               namespace |-> ns_name(c.vpc, c.subnet),
                               ip |-> subnet_ip(c.cidr), gateway |-> subnet_gateway(c.cidr),
                               veth_host |-> veth_host(c.vpc, c.subnet),
                               veth_ns |-> veth_ns(c.vpc, c.subnet)])]
      [] c.name = "delete-vpc" ->
            [state EXCEPT !.vpcs = [n \in DOMAIN state.vpcs \ {c.vpc} |-> state.vpcs[n]]]
      [] OTHER -> state

\* self.state as the handler leaves it before _save_state
updated_state(state, c) ==
    CASE c.name = "create-vpc" ->
            [state EXCEPT !.vpcs =
                [n \in DOMAIN state.vpcs \cup {c.vpc} |->
                    IF n = c.vpc
                    THEN [cidr |-> c.cidr, bridge |-> bridge_name(c.vpc),
                          bridge_ip |-> bridge_ip(c.cidr),
                          internet_interface |-> c.iface, subnets |-> << >>]
                    ELSE state.vpcs[n]]]
      [] c.name = "add-subnet" ->
            [state EXCEPT !.vpcs[c.vpc].subnets =
                set_subnet(@, [name |-> c.subnet, cidr |-> c.cidr, type |-> c.type,
                               namespace |-> ns_name(c.vpc, c.subnet),
                               ip |-> subnet_ip(c.cidr), gateway |-> subnet_gateway(c.cidr),
                               veth_host |-> veth_host(c.vpc, c.subnet),
                               veth_ns |-> veth_ns(c.vpc, c.subnet)])]
      [] c.name = "delete-vpc" ->
            [state EXCEPT !.vpcs = [n \in DOMAIN state.vpcs \ {c.vpc} |-> state.vpcs[n]]]
      [] OTHER -> state

(***************************************************************************)
(* The processes.  mgr[p] is the VPCManager of process p: the command it   *)
(* was started with, self.state, the step it is at, how it ended, and the  *)
(* commands it has passed to _run_cmd so far.                              *)
(***************************************************************************)
Procs == {1, 2}

\* what _run_cmd was called with and how the command exited
Issued(d, check, rc) == [d |-> d, check |-> check, rc |-> rc]

IdleManager ==
    [cmd |-> NoArgs, loaded |-> EmptyState, state |-> EmptyState, pc |-> 1,
     status |-> "idle", issued |-> << >>]

\* main(): VPCManager() loads the state file, then the handler is entered
Manager(state, c) ==
    [cmd |-> c, loaded |-> state, state |-> state, pc |-> 1, issued |-> << >>,
     status |-> IF early_return(state, c) # "" THEN early_return(state, c)
                ELSE IF Script(state, c) = << >> THEN "ok" ELSE "running"]

Idle(p) == mgr[p].cmd.name = "idle"

Running(p) == mgr[p].status = "running"

Steps(p) == Script(mgr[p].loaded, mgr[p].cmd)

CurrentStep(p) == Steps(p)[mgr[p].pc]

\* the manager after the step at pc returned normally
Advance(m) ==
    [m EXCEPT !.pc = m.pc + 1,
              !.status = IF m.pc + 1 > Len(Script(m.loaded, m.cmd)) THEN "ok" ELSE "running"]

Init ==
    /\ disk = EmptyState
    /\ kernel = EmptyKernel
    /\ mgr = [p \in Procs |-> IdleManager]
    /\ nops = 0
    /\ nfail = 0

Start(p, c) ==
    /\ Idle(p)
    /\ nops < MaxOps
    /\ nops' = nops + 1
    /\ mgr' = [mgr EXCEPT ![p] = Manager(disk, c)]
    /\ UNCHANGED <<disk, kernel, nfail>>

CreateVpc(p) ==
    \E n \in VpcNames, cidr \in VpcCidrs :
        Start(p, Args("create-vpc", n, "", "", cidr, "", "eth0", << >>))

AddSubnet(p) ==
    \E n \in VpcNames, s \in SubnetNames, cidr \in SubnetCidrs, type \in SubnetTypes :
        Start(p, Args("add-subnet", n, "", s, cidr, type, "", << >>))

Peer(p) ==
    \E n1 \in VpcNames, n2 \in VpcNames :
        Start(p, Args("peer", n1, n2, "", CIDR(0, 0), "", "", << >>))

ApplyFirewall(p) ==
    \E n \in VpcNames, s \in SubnetNames, policy \in Policies :
        Start(p, Args("apply-firewall", n, "", s, CIDR(0, 0), "", "", policy))

DeleteVpc(p) ==
    \E n \in VpcNames :
        Start(p, Args("delete-vpc", n, "", "", CIDR(0, 0), "", "", << >>))

\* _run_cmd, the command exits 0
RunCmd(p) ==
    /\ Running(p)
    /\ CurrentStep(p).t = "run"
    /\ CanSucceed(kernel, CurrentStep(p).d)
    /\ kernel' = Apply(kernel, CurrentStep(p).d)
    /\ mgr' = [mgr EXCEPT ![p] =
                 [Advance(mgr[p]) EXCEPT !.issued = Append(@, Issued(CurrentStep(p).d, CurrentStep(p).check, 0))]]
    /\ UNCHANGED <<disk, nops, nfail>>

\* the manager after the command at pc exited non-zero: _run_cmd raises
\* when check is set
\* variant: a non-zero exit status never raises
Failed_never_raises(m, d, check) ==
    [Advance(m) EXCEPT !.issued = Append(@, Issued(d, check, 1))]

Failed(m, d, check) ==
    IF check
    THEN [m EXCEPT !.status = "DirectiveFailed", !.issued = Append(@, Issued(d, check, 1))]
    ELSE [Advance(m) EXCEPT !.issued = Append(@, Issued(d, check, 1))]

\* _run_cmd, the command exits non-zero because the kernel refuses it
RunCmdFails(p) ==
    /\ Running(p)
    /\ CurrentStep(p).t = "run"
    /\ ~CanSucceed(kernel, CurrentStep(p).d)
    /\ mgr' = [mgr EXCEPT ![p] = Failed(mgr[p], CurrentStep(p).d, CurrentStep(p).check)]
    /\ UNCHANGED <<disk, kernel, nops, nfail>>

\* _run_cmd, the command exits non-zero for a reason outside the kernel
\* objects (a missing tool, a missing kernel module, a lost privilege)
RunCmdFault(p) ==
    /\ Running(p)
    /\ CurrentStep(p).t = "run"
    /\ CanSucceed(kernel, CurrentStep(p).d)
    /\ nfail < MaxFail
    /\ nfail' = nfail + 1
    /\ mgr' = [mgr EXCEPT ![p] = Failed(mgr[p], CurrentStep(p).d, CurrentStep(p).check)]
    /\ UNCHANGED <<disk, kernel, nops>>

\* ipaddress.ip_network(...) and list(network.hosts())[i]
LookupHosts(p) ==
    /\ Running(p)
    /\ CurrentStep(p).t = "hosts"
    /\ mgr' = [mgr EXCEPT ![p] =
                 IF hosts_ok(mgr[p].cmd)
                 THEN Advance(mgr[p])
                 ELSE [mgr[p] EXCEPT !.status = "InvalidBlock"]]
    /\ UNCHANGED <<disk, kernel, nops, nfail>>

\* the handler updates self.state and calls _save_state
SaveState(p) ==
    /\ Running(p)
    /\ CurrentStep(p).t = "save"
    /\ disk' = updated_state(mgr[p].state, mgr[p].cmd)
    /\ mgr' = [mgr EXCEPT ![p] =
                 [Advance(mgr[p]) EXCEPT !.state = updated_state(mgr[p].state, mgr[p].cmd)]]
    /\ UNCHANGED <<kernel, nops, nfail>>

\* the process ends
Exit(p) ==
    /\ ~Idle(p)
    /\ ~Running(p)
    /\ mgr' = [mgr EXCEPT ![p] = IdleManager]
    /\ UNCHANGED <<disk, kernel, nops, nfail>>

\* one operator process at a time, every command failing only when the
\* kernel refuses it
Next ==
    \/ CreateVpc(1)
    \/ AddSubnet(1)
    \/ Peer(1)
    \/ ApplyFirewall(1)
    \/ DeleteVpc(1)
    \/ RunCmd(1)
    \/ RunCmdFails(1)
    \/ LookupHosts(1)
    \/ SaveState(1)
    \/ Exit(1)

Spec == Init /\ [][Next]_vars

(***************************************************************************)
(* Runs with faults: any command may also fail for an outside reason.      *)
(* They start from what fault-free invocations leave behind.               *)
(***************************************************************************)
\* the kernel after every command of the steps succeeded
RECURSIVE ApplyAll(_, _)
ApplyAll(k, steps) ==
    IF steps = << >> THEN k
    ELSE ApplyAll(IF Head(steps).t = "run" THEN Apply(k, Head(steps).d) ELSE k, Tail(steps))

\* state file and kernel after the invocations cs, each running to its end
RECURSIVE After(_)
After(cs) ==
    IF cs = << >> THEN [disk |-> EmptyState, kernel |-> EmptyKernel]
    ELSE LET before == After(SubSeq(cs, 1, Len(cs) - 1))
             c == cs[Len(cs)]
         IN [disk |-> updated_state(before.disk, c),
             kernel |-> ApplyAll(before.kernel, Script(before.disk, c))]

Provisioned ==
    << Args("create-vpc", "app", "", "", CIDR(IP(10, 0, 0, 0), 16), "", "eth0", << >>),
       Args("add-subnet", "app", "", "web", CIDR(IP(10, 0, 1, 0), 24), "public", "", << >>),
       Args("add-subnet", "app", "", "db-web", CIDR(IP(10, 0, 1, 0), 31), "private", "", << >>) >>

InitFaults ==
    /\ \E n \in 0..Len(Provisioned) :
          /\ disk = After(SubSeq(Provisioned, 1, n)).disk
          /\ kernel = After(SubSeq(Provisioned, 1, n)).kernel
    /\ mgr = [p \in Procs |-> IdleManager]
    /\ nops = 0
    /\ nfail = 0

NextFaults ==
    \/ nops < MaxFaultOps /\ CreateVpc(1)
    \/ nops < MaxFaultOps /\ AddSubnet(1)
    \/ nops < MaxFaultOps /\ Peer(1)
    \/ nops < MaxFaultOps /\ ApplyFirewall(1)
    \/ nops < MaxFaultOps /\ DeleteVpc(1)
    \/ RunCmd(1)
    \/ RunCmdFails(1)
    \/ RunCmdFault(1)
    \/ LookupHosts(1)
    \/ SaveState(1)
    \/ Exit(1)

SpecFaults == InitFaults /\ [][NextFaults]_vars

\* the starting points of the runs with faults are states of the fault-free runs
ProvisionedNotReached ==
    ~(/\ Idle(1)
      /\ disk = After(Provisioned).disk
      /\ kernel = After(Provisioned).kernel)

(***************************************************************************)
(* Two operator processes at once, each running one invocation: nothing    *)
(* serialises them, so their steps interleave freely.  The runs start from *)
(* what earlier invocations left behind.                                   *)
(***************************************************************************)
NextConcurrent ==
    \E p \in Procs :
        \/ CreateVpc(p)
        \/ AddSubnet(p)
        \/ Peer(p)
        \/ ApplyFirewall(p)
        \/ DeleteVpc(p)
        \/ RunCmd(p)
        \/ RunCmdFails(p)
        \/ LookupHosts(p)
        \/ SaveState(p)

SpecConcurrent == InitFaults /\ [][NextConcurrent]_vars

(***************************************************************************)
(* Properties.                                                             *)
(***************************************************************************)

\* C1: create-vpc on a name the loaded store already holds takes the
\* "already exists" return: no command is passed to _run_cmd and neither
\* self.state nor the state file differs from what was loaded.
C1_CreateExistingRejected ==
    \A p \in Procs :
        (mgr[p].cmd.name = "create-vpc" /\ mgr[p].cmd.vpc \in DOMAIN mgr[p].loaded.vpcs)
            => /\ mgr[p].status = "AlreadyExists"
               /\ mgr[p].issued = << >>
               /\ mgr[p].state = mgr[p].loaded
               /\ disk = mgr[p].loaded

C1_Witness ==
    \E p \in Procs :
        /\ mgr[p].cmd.name = "create-vpc"
        /\ mgr[p].cmd.vpc \in DOMAIN disk.vpcs
        /\ mgr[p].status = "AlreadyExists"

\* the VPC (or, for apply-firewall, the subnet) the command names is not in st
TargetMissing(st, c) ==
    CASE c.name = "add-subnet" -> c.vpc \notin DOMAIN st.vpcs
      [] c.name = "peer" -> c.vpc \notin DOMAIN st.vpcs \/ c.vpc2 \notin DOMAIN st.vpcs
      [] c.name = "apply-firewall" ->
            \/ c.vpc \notin DOMAIN st.vpcs
            \/ \A i \in 1..Len(st.vpcs[c.vpc].subnets) : st.vpcs[c.vpc].subnets[i].name # c.subnet
      [] c.name = "delete-vpc" -> c.vpc \notin DOMAIN st.vpcs
      [] OTHER -> FALSE

\* C2: add-subnet, peer, apply-firewall and delete-vpc naming a VPC (or
\* subnet) that the loaded store does not hold end "not found" with no
\* command issued and the store as loaded.
C2_MissingTargetNotFound ==
    \A p \in Procs :
        TargetMissing(mgr[p].loaded, mgr[p].cmd)
            => /\ mgr[p].status = "NotFound"
               /\ mgr[p].issued = << >>
               /\ mgr[p].state = mgr[p].loaded
               /\ disk = mgr[p].loaded

\* a delete-vpc of a VPC that was created and deleted before is refused
C2_Witness ==
    \E p \in Procs :
        /\ mgr[p].cmd.name = "delete-vpc"
        /\ mgr[p].status = "NotFound"
        /\ mgr[p].issued = << >>
        /\ nops = 3
        /\ disk = EmptyState
        /\ kernel = EmptyKernel

\* C3: add-subnet with a subnet name the VPC already holds is refused as
\* "already exists": no command is issued and the store stays as loaded.
C3_DuplicateSubnetRejected ==
    \A p \in Procs :
        (/\ mgr[p].cmd.name = "add-subnet"
         /\ mgr[p].cmd.vpc \in DOMAIN mgr[p].loaded.vpcs
         /\ \E i \in 1..Len(mgr[p].loaded.vpcs[mgr[p].cmd.vpc].subnets) :
               mgr[p].loaded.vpcs[mgr[p].cmd.vpc].subnets[i].name = mgr[p].cmd.subnet)
            => /\ mgr[p].status = "AlreadyExists"
               /\ mgr[p].issued = << >>
               /\ disk = mgr[p].loaded

\* the object or rule a successful command put into the kernel is there
Remains(k, d) ==
    CASE d.v = "ip link add A type bridge" -> d.a \in k.bridges
      [] d.v = "ip netns add A" -> d.a \in k.netns
      [] d.v = "ip link add A type veth peer name B" ->
            (\E l \in k.links : l.name = d.a) /\ (\E l \in k.links : l.name = d.b)
      [] d.v \in {"iptables -A FORWARD -i A -o B -j C", "iptables -A FORWARD -i A ! -o B -j C"} ->
            \E i \in 1..Len(k.forward) : k.forward[i] = ForwardRule(d)
      [] d.v = "iptables -t nat -A POSTROUTING -s N/LEN -o A -j MASQUERADE" ->
            \E i \in 1..Len(k.postrouting) : k.postrouting[i] = NatRule(d)
      [] OTHER -> TRUE

\* C4: in create-vpc and add-subnet, once a command run with check set
\* has failed, it is the last command issued, the invocation has ended
\* "directive failed", the state file is as loaded, and what the earlier
\* successful commands created is still in the kernel.
C4_AbortKeepsStoreAndObjects ==
    \A p \in Procs :
        (/\ mgr[p].cmd.name \in {"create-vpc", "add-subnet"}
         /\ \E i \in 1..Len(mgr[p].issued) : mgr[p].issued[i].check /\ mgr[p].issued[i].rc # 0)
            => /\ \A i \in 1..Len(mgr[p].issued) :
                     (mgr[p].issued[i].check /\ mgr[p].issued[i].rc # 0) => i = Len(mgr[p].issued)
               /\ mgr[p].status = "DirectiveFailed"
               /\ disk = mgr[p].loaded
               /\ \A i \in 1..Len(mgr[p].issued) :
                     mgr[p].issued[i].rc = 0 => Remains(kernel, mgr[p].issued[i].d)

\* add-subnet aborted after the namespace and the veth pair were created
C4_Witness ==
    \E p \in Procs :
        /\ mgr[p].cmd.name = "add-subnet"
        /\ mgr[p].status = "DirectiveFailed"
        /\ Len(mgr[p].issued) = 4
        /\ mgr[p].issued[1].d.a \in kernel.netns
        /\ \E l \in kernel.links : l.name = mgr[p].issued[2].d.a
        /\ disk = mgr[p].loaded
        /\ mgr[p].cmd.vpc \in DOMAIN disk.vpcs

\* the cleanup commands of a VPC record
Cleanup(vpc) ==
    {netns_del(vpc.subnets[i].namespace) : i \in 1..Len(vpc.subnets)}
        \cup {link_del(vpc.subnets[i].veth_host) : i \in 1..Len(vpc.subnets)}
        \cup {nat_delete(vpc.subnets[i].cidr, vpc.internet_interface) :
                i \in {j \in 1..Len(vpc.subnets) : vpc.subnets[j].type = "public"}}
        \cup {forward_delete(vpc.bridge, vpc.bridge, "ACCEPT"),
              forward_delete_not(vpc.bridge, vpc.bridge, "DROP"),
              link_del(vpc.bridge)}

C6_PeerNamesOrderFree ==
    \A p \in Procs :
        \A i \in 1..Len(mgr[p].issued) :
            (mgr[p].cmd.name = "peer" /\ mgr[p].issued[i].d.v = "ip link add A type veth peer name B")
                => {mgr[p].issued[i].d.a, mgr[p].issued[i].d.b}
                     = {peer_veth1(mgr[p].cmd.vpc2, mgr[p].cmd.vpc),
                        peer_veth2(mgr[p].cmd.vpc2, mgr[p].cmd.vpc)}

\* C7: a peer invocation issues the removal of both peer interface names
\* before it creates the pair, and when it has ended ok the kernel holds
\* under these two names exactly the two ends of one veth pair, the first
\* enslaved to the first VPC's bridge and the second to the second's.
C7_RepeerKeepsOneLink ==
    \A p \in Procs :
        mgr[p].cmd.name = "peer" =>
            /\ \A i \in 1..Len(mgr[p].issued) :
                  mgr[p].issued[i].d.v = "ip link add A type veth peer name B"
                    => /\ \E j \in 1..(i - 1) : mgr[p].issued[j].d = link_del(mgr[p].issued[i].d.a)
                       /\ \E j \in 1..(i - 1) : mgr[p].issued[j].d = link_del(mgr[p].issued[i].d.b)
            /\ mgr[p].status = "ok" =>
                  \E i \in 1..Len(mgr[p].issued) :
                      /\ mgr[p].issued[i].d.v = "ip link add A type veth peer name B"
                      /\ {l \in kernel.links : l.name \in {mgr[p].issued[i].d.a, mgr[p].issued[i].d.b}}
                           = {Link(mgr[p].issued[i].d.a, mgr[p].issued[i].d.b, "",
                                   mgr[p].loaded.vpcs[mgr[p].cmd.vpc].bridge),
                              Link(mgr[p].issued[i].d.b, mgr[p].issued[i].d.a, "",
                                   mgr[p].loaded.vpcs[mgr[p].cmd.vpc2].bridge)}

\* a second peer of two different VPCs removed the link of the first and ended ok
C7_Witness ==
    \E p \in Procs :
        /\ mgr[p].cmd.name = "peer"
        /\ mgr[p].cmd.vpc # mgr[p].cmd.vpc2
        /\ mgr[p].status = "ok"
        /\ mgr[p].issued[1].d = link_del(mgr[p].issued[3].d.a)
        /\ mgr[p].issued[1].rc = 0
        /\ Cardinality(kernel.links) = 2

\* x lies in the block c
InBlock(x, c) == x \div (2 ^ (32 - c.len)) = c.addr \div (2 ^ (32 - c.len))

\* x is an address of c a host can take: any address of a /31 or /32, and
\* in a larger block any but the first (network) and the last (broadcast)
Usable(x, c) ==
    /\ InBlock(x, c)
    /\ c.len <= 30 => (InBlock(x - 1, c) /\ InBlock(x + 1, c))

LowestUsable(x, c) == Usable(x, c) /\ \A y \in c.addr..(x - 1) : ~Usable(y, c)

SecondLowestUsable(x, c) ==
    Usable(x, c) /\ Cardinality({y \in c.addr..(x - 1) : Usable(y, c)}) = 1

\* C8: every subnet record holds as ip and gateway two different addresses
\* of its block, the lowest and the second lowest usable one; every VPC
\* record holds as bridge_ip the lowest usable address of its block
\* (10.0.0.0/16: 10.0.0.1; 10.0.1.0/24: 10.0.1.1 and 10.0.1.2).
C8_PlannedAddresses ==
    \A n \in DOMAIN disk.vpcs :
        /\ LowestUsable(disk.vpcs[n].bridge_ip, disk.vpcs[n].cidr)
        /\ disk.vpcs[n].cidr = CIDR(IP(10, 0, 0, 0), 16) => disk.vpcs[n].bridge_ip = IP(10, 0, 0, 1)
        /\ \A i \in 1..Len(disk.vpcs[n].subnets) :
              LET r == disk.vpcs[n].subnets[i]
              IN /\ r.ip # r.gateway
                 /\ InBlock(r.ip, r.cidr)
                 /\ InBlock(r.gateway, r.cidr)
                 /\ LowestUsable(r.ip, r.cidr)
                 /\ SecondLowestUsable(r.gateway, r.cidr)
                 /\ r.cidr = CIDR(IP(10, 0, 1, 0), 24)
                        => (r.ip = IP(10, 0, 1, 1) /\ r.gateway = IP(10, 0, 1, 2))

\* the store holds a /16 VPC with a /24 subnet and a /31 subnet
C8_Witness ==
    \E n \in DOMAIN disk.vpcs :
        /\ disk.vpcs[n].cidr.len = 16
        /\ \E i \in 1..Len(disk.vpcs[n].subnets) : disk.vpcs[n].subnets[i].cidr.len = 24
        /\ \E i \in 1..Len(disk.vpcs[n].subnets) :
              /\ disk.vpcs[n].subnets[i].cidr.len = 31
              /\ disk.vpcs[n].subnets[i].ip = IP(10, 0, 1, 0)
              /\ disk.vpcs[n].subnets[i].gateway = IP(10, 0, 1, 1)

\* the INPUT command of an ingress rule: accept for allow, drop for deny
IngressCommand(ns, r) ==
    input_append(ns, r.protocol, r.port, IF r.action = "allow" THEN "ACCEPT" ELSE "DROP")

\* the namespace recorded for the subnet the command names
RecordedNamespace(st, c) ==
    LET subnets == st.vpcs[c.vpc].subnets
    IN subnets[CHOOSE i \in 1..Len(subnets) : subnets[i].name = c.subnet].namespace

C9_IssuedInOrder ==
    \A p \in Procs :
        (mgr[p].cmd.name = "apply-firewall" /\ ~TargetMissing(mgr[p].loaded, mgr[p].cmd))
            => /\ disk = mgr[p].loaded
               /\ mgr[p].state = mgr[p].loaded
               /\ Len(mgr[p].issued) <= Len(mgr[p].cmd.policy)
               /\ \A i \in 1..Len(mgr[p].issued) :
                     mgr[p].issued[i].d
                        = IngressCommand(RecordedNamespace(mgr[p].loaded, mgr[p].cmd), mgr[p].cmd.policy[i])
               /\ mgr[p].status = "ok" => Len(mgr[p].issued) = Len(mgr[p].cmd.policy)

C9_Appends ==
    \A p \in Procs :
        (/\ mgr[p].cmd.name = "apply-firewall"
         /\ Len(mgr'[p].issued) = Len(mgr[p].issued) + 1
         /\ mgr'[p].issued[Len(mgr'[p].issued)].rc = 0)
            => LET d == mgr'[p].issued[Len(mgr'[p].issued)].d
               IN /\ kernel'.input[d.ns] = Append(kernel.input[d.ns], InputRule(d))
                  /\ \A ns \in DOMAIN kernel.input \ {d.ns} : kernel'.input[ns] = kernel.input[ns]

\* C9: apply-firewall on a recorded subnet issues one INPUT command per
\* ingress rule, in list order, in the subnet's namespace, with the rule's
\* protocol and port and accept for allow, drop for deny, k commands for k
\* rules when it ends ok; each command appends its rule to the namespace's
\* INPUT chain and removes nothing; the store is not modified.
C9_FirewallAdditive == []C9_IssuedInOrder /\ [][C9_Appends]_vars

\* the same two-rule policy applied twice: every rule is in the chain twice
C9_Witness ==
    \E p \in Procs :
        /\ mgr[p].cmd.name = "apply-firewall"
        /\ mgr[p].status = "ok"
        /\ Len(mgr[p].cmd.policy) = 2
        /\ Len(mgr[p].issued) = 2
        /\ LET ns == mgr[p].issued[1].d.ns
               r1 == InputRule(mgr[p].issued[1].d)
               r2 == InputRule(mgr[p].issued[2].d)
           IN /\ r1 = [p |-> "tcp", dport |-> 22, j |-> "DROP"]
              /\ r2 = [p |-> "tcp", dport |-> 80, j |-> "ACCEPT"]
              /\ kernel.input[ns] = <<r1, r2, r1, r2>>

\* C10: no two subnet records of the store carry the same namespace, and
\* the namespace an add-subnet creates is the namespace of no record made
\* for another (vpc name, subnet name) pair.
C10_NamespaceInjective ==
    /\ \A n1 \in DOMAIN disk.vpcs, n2 \in DOMAIN disk.vpcs :
          \A i \in 1..Len(disk.vpcs[n1].subnets), j \in 1..Len(disk.vpcs[n2].subnets) :
              disk.vpcs[n1].subnets[i].namespace = disk.vpcs[n2].subnets[j].namespace
                  => (n1 = n2 /\ i = j)
    /\ \A p \in Procs :
          (mgr[p].cmd.name = "add-subnet" /\ mgr[p].issued # << >>)
              => \A n \in DOMAIN disk.vpcs :
                    \A i \in 1..Len(disk.vpcs[n].subnets) :
                        disk.vpcs[n].subnets[i].namespace = mgr[p].issued[1].d.a
                            => (n = mgr[p].cmd.vpc /\ disk.vpcs[n].subnets[i].name = mgr[p].cmd.subnet)

\* the number of addresses of c a host can take
UsableCount(c) == IF c.len >= 31 THEN 2 ^ (32 - c.len) ELSE 2 ^ (32 - c.len) - 2

\* the block is malformed (bits set beyond the prefix) or, for a subnet,
\* has fewer than the two addresses the subnet needs
InvalidBlock(c) ==
    \/ c.cidr.addr % (2 ^ (32 - c.cidr.len)) # 0
    \/ c.name = "add-subnet" /\ UsableCount(c.cidr) < 2

\* C11: a create-vpc of a new name and an add-subnet to a recorded VPC
\* given an invalid block issue no command at all: they end "invalid
\* block" and the state file stays as loaded.
C11_InvalidBlockFirst ==
    \A p \in Procs :
        (/\ \/ mgr[p].cmd.name = "create-vpc" /\ mgr[p].cmd.vpc \notin DOMAIN mgr[p].loaded.vpcs
            \/ mgr[p].cmd.name = "add-subnet" /\ mgr[p].cmd.vpc \in DOMAIN mgr[p].loaded.vpcs
         /\ InvalidBlock(mgr[p].cmd))
            => /\ mgr[p].status \in {"running", "InvalidBlock"}
               /\ mgr[p].issued = << >>
               /\ disk = mgr[p].loaded

\* the place of an add-subnet command in the dependency order: namespace,
\* veth pair, move into the namespace, attach to the bridge, host end up,
\* namespace side (lo, address, veth end up), gateway address on the
\* bridge, default route, NAT
Stage(d) ==
    CASE d.v = "ip netns add A" -> 1
      [] d.v = "ip link add A type veth peer name B" -> 2
      [] d.v = "ip link set A netns B" -> 3
      [] d.v = "ip link set A master B" -> 4
      [] d.v = "ip link set A up" /\ d.ns = "" -> 5
      [] d.v = "ip link set A up" /\ d.ns # "" -> 6
      [] d.v = "ip addr add N/LEN dev A" /\ d.ns # "" -> 6
      [] d.v = "ip addr add N/LEN dev A" /\ d.ns = "" -> 7
      [] d.v = "ip route add default via N" -> 8
      [] d.v = "iptables -t nat -A POSTROUTING -s N/LEN -o A -j MASQUERADE" -> 9
      [] d.v = "iptables -A FORWARD -i A -o B -j C" -> 9
      [] OTHER -> 0

\* the commands of the last stage an add-subnet of this type has
LastStage(type) == IF type = "public" THEN 9 ELSE 8

\* C12: the commands of an add-subnet are issued in dependency order, each
\* stage only after a command of the stage before it succeeded; NAT
\* commands come last and only for a public subnet, three of them when the
\* invocation ends ok; the state file changes only when the invocation has
\* ended ok with every command, up to the last stage, having succeeded.
C12_AddSubnetOrder ==
    \A p \in Procs :
        mgr[p].cmd.name = "add-subnet" =>
            LET issued == mgr[p].issued
                done == {Stage(issued[i].d) : i \in {k \in 1..Len(issued) : issued[k].rc = 0}}
            IN /\ \A i \in 1..Len(issued) :
                     /\ Stage(issued[i].d) \in 1..LastStage(mgr[p].cmd.type)
                     /\ \A j \in 1..(i - 1) : Stage(issued[j].d) <= Stage(issued[i].d)
                     /\ Stage(issued[i].d) > 1 =>
                           \E j \in 1..(i - 1) :
                               issued[j].rc = 0 /\ Stage(issued[j].d) = Stage(issued[i].d) - 1
               /\ mgr[p].status = "ok" =>
                     /\ \A i \in 1..Len(issued) : issued[i].rc = 0
                     /\ done = 1..LastStage(mgr[p].cmd.type)
                     /\ mgr[p].cmd.type = "public" =>
                           Cardinality({i \in 1..Len(issued) : Stage(issued[i].d) = 9}) = 3
               /\ disk # mgr[p].loaded => mgr[p].status = "ok"

\* a public add-subnet ran its 13 commands and its record is in the state file
C12_Witness ==
    \E p \in Procs :
        /\ mgr[p].cmd.name = "add-subnet"
        /\ mgr[p].cmd.type = "public"
        /\ mgr[p].status = "ok"
        /\ Len(mgr[p].issued) = 13
        /\ Stage(mgr[p].issued[11].d) = 9
        /\ disk # mgr[p].loaded
        /\ \E i \in 1..Len(disk.vpcs[mgr[p].cmd.vpc].subnets) :
              disk.vpcs[mgr[p].cmd.vpc].subnets[i].name = mgr[p].cmd.subnet

\* the two FORWARD rules NAT setup adds for a VPC record
NatForwardRules(vpc) ==
    { [i |-> vpc.bridge, o |-> vpc.internet_interface, j |-> "ACCEPT", neg |-> FALSE],
      [i |-> vpc.internet_interface, o |-> vpc.bridge, j |-> "ACCEPT", neg |-> FALSE] }

\* C13: when a delete-vpc of a recorded VPC with a public subnet has ended
\* ok, it has issued the removal of the MASQUERADE rule of each public
\* subnet and of the two FORWARD accept rules between the bridge and the
\* internet interface, and none of these rules is left in the kernel.
C13_DeleteRemovesNat ==
    \A p \in Procs :
        (/\ mgr[p].cmd.name = "delete-vpc"
         /\ mgr[p].status = "ok"
         /\ mgr[p].cmd.vpc \in DOMAIN mgr[p].loaded.vpcs)
            => LET vpc == mgr[p].loaded.vpcs[mgr[p].cmd.vpc]
                   issued == {mgr[p].issued[i].d : i \in 1..Len(mgr[p].issued)}
               IN \A i \in 1..Len(vpc.subnets) :
                     vpc.subnets[i].type = "public" =>
                        /\ nat_delete(vpc.subnets[i].cidr, vpc.internet_interface) \in issued
                        /\ forward_delete(vpc.bridge, vpc.internet_interface, "ACCEPT") \in issued
                        /\ forward_delete(vpc.internet_interface, vpc.bridge, "ACCEPT") \in issued
                        /\ ~Contains(kernel.postrouting,
                                     [addr |-> vpc.subnets[i].cidr.addr, len |-> vpc.subnets[i].cidr.len,
                                      o |-> vpc.internet_interface])
                        /\ \A r \in NatForwardRules(vpc) : ~Contains(kernel.forward, r)

\* whether a FORWARD rule applies to a packet entering by i and leaving by o
Matches(r, i, o) == r.i = i /\ (IF r.neg THEN r.o # o ELSE r.o = o)

\* first-match evaluation of the chain: the target of the first rule that
\* applies, the chain's policy (ACCEPT) when none does
Verdict(chain, i, o) ==
    IF \E k \in 1..Len(chain) : Matches(chain[k], i, o)
    THEN chain[CHOOSE k \in 1..Len(chain) :
                  Matches(chain[k], i, o) /\ \A h \in 1..(k - 1) : ~Matches(chain[h], i, o)].j
    ELSE "ACCEPT"

AcceptRule(i, o) == [i |-> i, o |-> o, j |-> "ACCEPT", neg |-> FALSE]

\* the default-deny rule of a bridge: drop what leaves it for another interface
DenyRule(br) == [i |-> br, o |-> br, j |-> "DROP", neg |-> TRUE]

\* the accept rule from a to b is in the chain before every default-deny
\* rule of a and of b
Ahead(chain, a, b) ==
    \E k \in 1..Len(chain) :
        /\ chain[k] = AcceptRule(a, b)
        /\ \A h \in 1..Len(chain) : chain[h] \in {DenyRule(a), DenyRule(b)} => k < h

\* C14: when a peer invocation has ended ok with both rule insertions
\* succeeding, the accept rules between the two bridges are both in the
\* FORWARD chain ahead of every default-deny rule of either bridge; and in
\* every state, whatever invocations came after, an accept rule between the
\* bridges of two VPCs that is in the chain is ahead of these deny rules and
\* first-match evaluation accepts the traffic it names.
C14_PeerAcceptAhead ==
    /\ \A p \in Procs :
          (/\ mgr[p].cmd.name = "peer"
           /\ mgr[p].status = "ok"
           /\ \A i \in 1..Len(mgr[p].issued) :
                 mgr[p].issued[i].d.v = "iptables -I FORWARD -i A -o B -j C" => mgr[p].issued[i].rc = 0)
              => LET a == mgr[p].loaded.vpcs[mgr[p].cmd.vpc].bridge
                     b == mgr[p].loaded.vpcs[mgr[p].cmd.vpc2].bridge
                 IN /\ Ahead(kernel.forward, a, b)
                    /\ Ahead(kernel.forward, b, a)
                    /\ Verdict(kernel.forward, a, b) = "ACCEPT"
                    /\ Verdict(kernel.forward, b, a) = "ACCEPT"
    /\ \A n1 \in VpcNames, n2 \in VpcNames :
          Contains(kernel.forward, AcceptRule(bridge_name(n1), bridge_name(n2)))
              => /\ Ahead(kernel.forward, bridge_name(n1), bridge_name(n2))
                 /\ Verdict(kernel.forward, bridge_name(n1), bridge_name(n2)) = "ACCEPT"

\* two VPCs were peered and a public subnet was added afterwards: the
\* accept rules between the bridges and both deny rules are in the chain
C14_Witness ==
    \E p \in Procs :
        /\ mgr[p].cmd.name = "add-subnet"
        /\ mgr[p].cmd.type = "public"
        /\ mgr[p].status = "ok"
        /\ Contains(kernel.forward, AcceptRule("br-app", "br-app-db"))
        /\ Contains(kernel.forward, AcceptRule("br-app-db", "br-app"))
        /\ Contains(kernel.forward, DenyRule("br-app"))
        /\ Contains(kernel.forward, DenyRule("br-app-db"))
        /\ Verdict(kernel.forward, "br-app", "br-app-db") = "ACCEPT"

\* the create-vpc commands whose failure is to be ignored: the bridge
\* filtering knob, the two isolation rules, global IP forwarding
BestEffort(d) ==
    d.v \in {"echo 1 > /proc/sys/net/bridge/bridge-nf-call-iptables",
             "iptables -A FORWARD -i A -o B -j C",
             "iptables -A FORWARD -i A ! -o B -j C",
             "sysctl -w net.ipv4.ip_forward=1"}

\* C15: a create-vpc in which only best-effort commands have failed is not
\* aborted by them: it does not end "directive failed", and once its seven
\* commands are issued the VPC record is in the state file.
C15_BestEffortNeverAborts ==
    \A p \in Procs :
        (/\ mgr[p].cmd.name = "create-vpc"
         /\ \A i \in 1..Len(mgr[p].issued) : mgr[p].issued[i].rc # 0 => BestEffort(mgr[p].issued[i].d))
            => /\ mgr[p].status # "DirectiveFailed"
               /\ (Len(mgr[p].issued) = 7 /\ mgr[p].status # "running")
                     => mgr[p].cmd.vpc \in DOMAIN disk.vpcs

\* every VPC record and every subnet record of the state file is still in
\* it after the step, but for the VPC a delete-vpc of process p removes
KeepsRecords(p) ==
    \A n \in DOMAIN disk.vpcs :
        \/ mgr[p].cmd.name = "delete-vpc" /\ mgr[p].cmd.vpc = n
        \/ /\ n \in DOMAIN disk'.vpcs
           /\ disk'.vpcs[n].cidr = disk.vpcs[n].cidr
           /\ \A i \in 1..Len(disk.vpcs[n].subnets) :
                 \E j \in 1..Len(disk'.vpcs[n].subnets) :
                     disk'.vpcs[n].subnets[j] = disk.vpcs[n].subnets[i]

\* a step of process p that rewrites the state file while no other
\* invocation is under way and the file is still what p loaded (no other
\* invocation saved since) loses no record
C16_SaveKeeps ==
    \A p \in Procs :
        (/\ disk' # disk
         /\ mgr'[p] # mgr[p]
         /\ disk = mgr[p].loaded
         /\ \A q \in Procs \ {p} : ~Running(q))
            => KeepsRecords(p)

\* C16: the state file is loaded once when an invocation starts and
\* rewritten in full when it ends, with no locking.  A save by an
\* invocation that no other invocation overlaps (none is under way, none
\* saved since the load) loses no persisted record except the VPC a
\* delete-vpc removes; with overlapping load-to-save intervals a record
\* can be lost (the state C16_Witness).
C16_LostUpdateOnlyOnOverlap == [][C16_SaveKeeps]_vars

\* two create-vpc invocations of different names both ended ok, and the
\* state file holds the record of only one of them
C16_Witness ==
    /\ mgr[1].cmd.name = "create-vpc"
    /\ mgr[2].cmd.name = "create-vpc"
    /\ mgr[1].status = "ok"
    /\ mgr[2].status = "ok"
    /\ mgr[1].cmd.vpc # mgr[2].cmd.vpc
    /\ mgr[1].cmd.vpc \notin DOMAIN disk.vpcs
    /\ mgr[2].cmd.vpc \in DOMAIN disk.vpcs
    /\ bridge_name(mgr[1].cmd.vpc) \in kernel.bridges

\* two blocks share an address: one holds the first address of the other
Overlap(c1, c2) == InBlock(c1.addr, c2) \/ InBlock(c2.addr, c1)

\* C17: no two VPC records of the state file have overlapping blocks, and
\* no two subnet records have overlapping blocks.
C17_NoOverlap ==
    /\ \A n1 \in DOMAIN disk.vpcs, n2 \in DOMAIN disk.vpcs :
          n1 # n2 => ~Overlap(disk.vpcs[n1].cidr, disk.vpcs[n2].cidr)
    /\ \A n1 \in DOMAIN disk.vpcs, n2 \in DOMAIN disk.vpcs :
          \A i \in 1..Len(disk.vpcs[n1].subnets), j \in 1..Len(disk.vpcs[n2].subnets) :
              (n1 # n2 \/ i # j)
                  => ~Overlap(disk.vpcs[n1].subnets[i].cidr, disk.vpcs[n2].subnets[j].cidr)

\* C18: when an add-subnet of type public has ended ok, the accept rule
\* from the VPC's bridge to the internet interface is in the FORWARD chain
\* ahead of the bridge's default-deny rule, and first-match evaluation
\* accepts a packet from the bridge to the internet interface.
C18_NatAcceptAhead ==
    \A p \in Procs :
        (/\ mgr[p].cmd.name = "add-subnet"
         /\ mgr[p].cmd.type = "public"
         /\ mgr[p].status = "ok")
            => LET vpc == mgr[p].loaded.vpcs[mgr[p].cmd.vpc]
               IN /\ Ahead(kernel.forward, vpc.bridge, vpc.internet_interface)
                  /\ Verdict(kernel.forward, vpc.bridge, vpc.internet_interface) = "ACCEPT"

\* the interface names a peer of the two VPC names creates
PeerLinkNames(n1, n2) == {peer_veth1(n1, n2), peer_veth2(n1, n2)}

\* C19: when a delete-vpc of a recorded VPC has ended ok with every
\* command succeeding or having nothing to remove, the kernel holds no end
\* of a peering link made for that VPC and another one, and the FORWARD
\* chain holds no accept rule between its bridge and another VPC's bridge.
C19_DeleteUndoesPeer ==
    \A p \in Procs :
        (/\ mgr[p].cmd.name = "delete-vpc"
         /\ mgr[p].status = "ok"
         /\ mgr[p].cmd.vpc \in DOMAIN mgr[p].loaded.vpcs)
            => \A n \in VpcNames \ {mgr[p].cmd.vpc} :
                  /\ \A l \in kernel.links :
                        l.name \notin PeerLinkNames(mgr[p].cmd.vpc, n) \cup PeerLinkNames(n, mgr[p].cmd.vpc)
                  /\ ~Contains(kernel.forward,
                               AcceptRule(bridge_name(mgr[p].cmd.vpc), bridge_name(n)))
                  /\ ~Contains(kernel.forward,
                               AcceptRule(bridge_name(n), bridge_name(mgr[p].cmd.vpc)))

\* the bridge of n is in the kernel, n is not in the state file, and no
\* create-vpc that made the bridge is still on its way to recording n
Orphan(n) ==
    /\ bridge_name(n) \in kernel.bridges
    /\ n \notin DOMAIN disk.vpcs
    /\ \A p \in Procs :
          ~(/\ mgr[p].cmd.name = "create-vpc"
            /\ mgr[p].cmd.vpc = n
            /\ Running(p)
            /\ mgr[p].issued # << >>
            /\ mgr[p].issued[1].rc = 0)

\* while n's bridge is an orphan, a create-vpc of n is the one that left
\* it behind or has got no further than a failed bridge creation, and a
\* delete-vpc of n has ended "not found" with no command issued
C20_OrphanBlocks ==
    \A n \in VpcNames :
        Orphan(n) =>
            \A p \in Procs :
                /\ (mgr[p].cmd.name = "create-vpc" /\ mgr[p].cmd.vpc = n) =>
                      \/ mgr[p].issued = << >> /\ Running(p)
                      \/ /\ mgr[p].issued # << >>
                         /\ mgr[p].issued[1].rc = 0
                         /\ mgr[p].status \in {"InvalidBlock", "DirectiveFailed"}
                      \/ /\ mgr[p].issued = << Issued(link_add_bridge(bridge_name(n)), TRUE, 1) >>
                         /\ mgr[p].status = "DirectiveFailed"
                /\ (mgr[p].cmd.name = "delete-vpc" /\ mgr[p].cmd.vpc = n) =>
                      mgr[p].status = "NotFound" /\ mgr[p].issued = << >>

\* an orphan bridge stays an orphan: no step removes it or records its VPC
C20_OrphanKept == \A n \in VpcNames : Orphan(n) => Orphan(n)'

\* C20: once a create-vpc of n has aborted after creating the bridge, every
\* later create-vpc of n aborts at the bridge creation and every delete-vpc
\* of n ends "not found" with no command, so n is never recorded and the
\* bridge is never removed.
C20_OrphanNeverRecovered == []C20_OrphanBlocks /\ [][C20_OrphanKept]_vars

\* after an aborted create-vpc of app and one more invocation, a create-vpc
\* of app has failed at the bridge creation
C20_Witness ==
    \E p \in Procs :
        /\ Orphan("app")
        /\ mgr[p].cmd.name = "create-vpc"
        /\ mgr[p].cmd.vpc = "app"
        /\ mgr[p].status = "DirectiveFailed"
        /\ Len(mgr[p].issued) = 1
        /\ mgr[p].issued[1].rc # 0
        /\ nops = 3

====
